---------------------------- MODULE Spec2Model ----------------------------
(***************************************************************************)
(* State-machine model of the PSLGang mass-spectrometry pipeline:          *)
(*   - Pipeline/Parser.py : decode_binary_array, parse_mzml_full_spectra   *)
(*   - Pipeline/Graph.py  : kendrick_mass, kmd_fractional, kmd_round,      *)
(*                          plot_data (band construction, tiling, noise)   *)
(*                                                                         *)
(* Three specifications share the module's variables:                      *)
(*   Spec     : one run of parse_mzml_full_spectra over an mzML document   *)
(*   SpecKmd  : the Kendrick calculator applied to one m/z value           *)
(*   SpecPlot : one call of plot_data over a list of augmented records     *)
(*                                                                         *)
(* Conventions.  Python None for a string-valued field is the string       *)
(* "None"; an optional list (m_z_array, intensity_array) is <<>> for None  *)
(* and <<list>> for a present list, so that an empty list <<<<>>>> stays   *)
(* distinct from None.  Floating-point numbers are exact rationals         *)
(* [n |-> numerator, d |-> denominator]; decoded binary floats are kept as *)
(* the tuple of 32-bit words they were read from.                          *)
(***************************************************************************)
EXTENDS Integers, Sequences, FiniteSets, TLC

VARIABLES
    \* ---- parse_mzml_full_spectra (Parser.py) ----
    doc,              \* the input document: [ns, spectra]
    pc,               \* control point of the parser
    ns,               \* the namespace map, "None" or the root's URI
    spectrum_iter,    \* result of root.findall(".//spectrum")
    i,                \* index of the next spectrum in spectrum_iter
    spectrum_info,    \* the record being built
    m_z_array,        \* optional list
    intensity_array,  \* optional list
    binary_iter,      \* the binaryDataArray children being iterated
    j,                \* index of the next element of binary_iter
    spectra_data,     \* the output list
    error,            \* the exception that left the function, or "none"
    \* ---- Kendrick calculator (Graph.py) ----
    mz,               \* the m/z value the calculator is applied to
    kmd,              \* [fractional, round]: optional results of the two calls
    \* ---- plot_data (Graph.py) ----
    args,             \* the call's arguments: data, method, max_points, band_margin
    lower_x,          \* optional bound, replaced by the data minimum when None
    upper_x,          \* optional bound, replaced by the data maximum when None
    ppc,              \* control point of plot_data
    x,                \* pooled m/z
    y,                \* pooled KMD
    c,                \* pooled intensities
    x_band,
    y_low,
    y_high,
    inside_mask,      \* one boolean per tiled replica
    c_plot,           \* ln(max(intensity, 1)) of the replicas kept for the plot
    noise,            \* the returned "Noise": optional
    \* ---- safe_float and augment_and_compute (Graph.py) ----
    val,              \* the argument of safe_float
    sf_out,           \* [called, raised, value]: the outcome of safe_float(val)
    json_data,        \* the argument of augment_and_compute
    filtered,         \* the MS1 records, augmented one after the other
    rec_i,            \* index in filtered of the record the loop is at
    apc,              \* control point of augment_and_compute
    \* ---- main (Graph.py) ----
    cli,              \* the parsed command line: augment, csv, method
    files,            \* the file system: json_path, json_path + ".bak", the csv
    loaded,           \* main's variable data
    bak,              \* main's variable bak
    original,         \* what json_path held when main started
    mpc               \* control point of main

parserVars == <<doc, pc, ns, spectrum_iter, i, spectrum_info, m_z_array,
                intensity_array, binary_iter, j, spectra_data, error>>

kmdVars == <<mz, kmd>>

plotVars == <<args, lower_x, upper_x, ppc, x, y, c, x_band, y_low, y_high,
              inside_mask, c_plot, noise>>

augVars == <<val, sf_out, json_data, filtered, rec_i, apc>>

mainVars == <<cli, files, loaded, bak, original, mpc>>

vars == <<parserVars, kmdVars, plotVars, augVars, mainVars>>

-----------------------------------------------------------------------------
(* Generic helpers *)

None == "None"

NoList == <<>>

SomeList(l) == <<l>>

\* Python values of several types, as safe_float may be given: a str (its
\* characters), a float, None, or a list (standing for any other object).
StrVal(chars) == [type |-> "str", s |-> chars, v |-> [n |-> 0, d |-> 1]]

NumVal(number) == [type |-> "float", s |-> <<>>, v |-> number]

NoneVal == [type |-> "NoneType", s |-> <<>>, v |-> [n |-> 0, d |-> 1]]

ListVal == [type |-> "list", s |-> <<>>, v |-> [n |-> 0, d |-> 1]]

Range(s) == {s[k] : k \in 1..Len(s)}

MaxOf(S) == CHOOSE m \in S : \A o \in S : o <= m

MinOf(S) == CHOOSE m \in S : \A o \in S : m <= o

-----------------------------------------------------------------------------
(* Exact rational arithmetic standing for the code's floats.  Values are   *)
(* kept in lowest terms with a positive denominator; sums and comparisons  *)
(* go through the least common denominator and products cancel crosswise,  *)
(* so intermediate integers stay small.                                    *)

Abs(a) == IF a < 0 THEN 0 - a ELSE a

RECURSIVE GCD(_, _)
GCD(a, b) == IF b = 0 THEN a ELSE GCD(b, a % b)

LCM(a, b) == (a \div GCD(a, b)) * b

Rat(n, d) ==
    LET g == GCD(Abs(n), Abs(d))
        s == IF d < 0 THEN 0 - 1 ELSE 1
    IN  [n |-> s * (n \div g), d |-> s * (d \div g)]

RatInt(k) == [n |-> k, d |-> 1]

RatAdd(a, b) ==
    IF b.d = 1 THEN [n |-> a.n + b.n * a.d, d |-> a.d]
    ELSE IF a.d = 1 THEN [n |-> a.n * b.d + b.n, d |-> b.d]
    ELSE LET l == LCM(a.d, b.d)
         IN  Rat(a.n * (l \div a.d) + b.n * (l \div b.d), l)

RatNeg(a) == [n |-> 0 - a.n, d |-> a.d]

RatSub(a, b) == RatAdd(a, RatNeg(b))

RatMul(a, b) ==
    IF a.d = 1 /\ b.d = 1 THEN [n |-> a.n * b.n, d |-> 1]
    ELSE LET g1 == GCD(Abs(a.n), b.d)
             g2 == GCD(Abs(b.n), a.d)
         IN  Rat((a.n \div g1) * (b.n \div g2), (a.d \div g2) * (b.d \div g1))

RatDiv(a, b) == RatMul(a, Rat(b.d, b.n))

RatLeq(a, b) ==
    IF a.d = b.d THEN a.n <= b.n
    ELSE IF b.d = 1 THEN a.n <= b.n * a.d
    ELSE IF a.d = 1 THEN a.n * b.d <= b.n
    ELSE LET l == LCM(a.d, b.d)
         IN  a.n * (l \div a.d) <= b.n * (l \div b.d)

RatLt(a, b) == RatLeq(a, b) /\ a # b

\* math.floor
Floor(a) == a.n \div a.d

\* Python 3 round(): to the nearest integer, a tie to the even one.
RoundHalfEven(a) ==
    LET f == Floor(a)
        twice == 2 * (a.n - f * a.d)
    IN  IF twice < a.d THEN f
        ELSE IF twice > a.d THEN f + 1
        ELSE IF f % 2 = 0 THEN f ELSE f + 1

-----------------------------------------------------------------------------
(* The mzML input alphabet.                                                *)

\* Needles looked for with Python's `in` and the cvParam names that hold them
\* (after .lower() where the code lowers the name).
Lower(name) ==
    CASE name = "Intensity Array" -> "intensity array"
      [] OTHER -> name

Contains(needle, s) ==
    CASE needle = "32-bit float"     -> s = "32-bit float"
      [] needle = "64-bit float"     -> s = "64-bit float"
      [] needle = "zlib compression" -> s = "zlib compression"
      [] needle = "intensity array"  -> s = "intensity array"
      [] needle = "m/z array"        -> s = "m/z array"
      [] needle = "m/z"              -> s = "m/z array"
      [] needle = "intensity"        -> s \in {"intensity array", "base peak intensity"}
      [] OTHER -> FALSE

\* A byte buffer: whole 32-bit words plus 0..3 stray bytes.
Bytes(words, stray) == [words |-> words, stray |-> stray]

Corrupt == [words |-> <<>>, stray |-> 0 - 1]

\* The <binary> child: present or not, its base64 text well padded or not, the
\* bytes it decodes to (stream) and what zlib.decompress makes of them
\* (inflated, or Corrupt when they are no zlib stream).
Payload(present, b64ok, stream, inflated) ==
    [present |-> present, b64ok |-> b64ok, stream |-> stream, inflated |-> inflated]

Plain(words, stray) == Payload(TRUE, TRUE, Bytes(words, stray), Corrupt)

Zipped(words) == Payload(TRUE, TRUE, Bytes(<<120, 156>>, 3), Bytes(words, 0))

BinaryDataArray(cv, payload) == [cvParams |-> cv, binary |-> payload]

MzOk == BinaryDataArray(<<"m/z array", "64-bit float", "no compression">>,
                        Plain(<<1, 2, 3, 4>>, 0))

IntOk == BinaryDataArray(<<"32-bit float", "Intensity Array">>, Plain(<<5, 6>>, 0))

IntShort == BinaryDataArray(<<"intensity array", "64-bit float">>, Plain(<<5, 6>>, 0))

IntZipOk == BinaryDataArray(<<"64-bit float", "zlib compression", "intensity array">>,
                            Zipped(<<7, 8, 9, 10>>))

IntCorruptZip == BinaryDataArray(<<"intensity array", "zlib compression">>,
                                 Plain(<<5, 6>>, 0))

MzBadBase64 == BinaryDataArray(<<"m/z array", "64-bit float">>,
                               Payload(TRUE, FALSE, Bytes(<<>>, 0), Corrupt))

MzMisaligned == BinaryDataArray(<<"m/z array">>, Plain(<<1, 2, 3>>, 0))

UnknownOk == BinaryDataArray(<<"64-bit float", "non-standard data array">>,
                             Plain(<<11, 12>>, 0))

BinaryPool == {MzOk, IntOk, IntShort, IntZipOk, IntCorruptZip, MzBadBase64,
               MzMisaligned, UnknownOk}

\* The binaryDataArray children of one spectrum: none, any single array, an
\* m/z array followed by any array, any array followed by an intensity array,
\* and two spectra with three children.
ArrayLists ==
    {<<>>}
    \cup {<<b>> : b \in BinaryPool}
    \cup {<<MzOk, b>> : b \in BinaryPool}
    \cup {<<b, IntOk>> : b \in BinaryPool}
    \cup {<<UnknownOk, MzOk, IntOk>>, <<MzOk, MzBadBase64, IntZipOk>>}

CvParam(name, value) == [name |-> name, value |-> value]

Spectrum(id, params, arrays) == [id |-> id, cvParams |-> params, arrays |-> arrays]

Ms1Params == <<CvParam("ms level", "1"), CvParam("base peak m/z", "445.12"),
               CvParam("base peak intensity", "1.2E+3")>>

\* Raw id attributes, chosen by the number of children so that equal and
\* different ids both occur in one document.
RawIdFor(arrays) ==
    CASE Len(arrays) = 0 -> None
      [] Len(arrays) = 1 -> "S7"
      [] Len(arrays) = 2 -> "controllerType=0 controllerNumber=1 scan=12"
      [] OTHER -> "scan=12"

SpectrumPool ==
    {Spectrum(RawIdFor(a), Ms1Params, a) : a \in ArrayLists}
    \cup {Spectrum("scan=12", <<CvParam("ms level", "2"), CvParam("base peak m/z", "n/a")>>,
                   <<MzOk, IntOk>>),
          Spectrum("S7", <<CvParam("total ion current", "1")>>, <<>>)}

\* Largest number of spectrum nodes in a document.
MaxSpectra == 2

SeqsUpTo(S, n) == UNION {[1..k -> S] : k \in 0..n}

Documents == [ns : BOOLEAN, spectra : SeqsUpTo(SpectrumPool, MaxSpectra)]

-----------------------------------------------------------------------------
(* Parser.py helpers *)

\* fmt_num_str: Decimal(str(s)) formatted with "f"; the input itself when it
\* is no decimal number; None for None.
fmt_num_str(s) ==
    CASE s = None     -> None
      [] s = "445.12" -> "445.12"
      [] s = "1.2E+3" -> "1200"
      [] OTHER        -> s

\* re.search(r"(scan=\d+)", spec_id or ""): the first match, else the id.
ScanId(raw) ==
    CASE raw = "controllerType=0 controllerNumber=1 scan=12" -> "scan=12"
      [] OTHER -> raw

\* np.frombuffer(decoded, dtype).tolist(): one value per `width` words; a
\* buffer that is not a whole number of elements raises ValueError.
RECURSIVE Chunks(_, _)
Chunks(words, width) ==
    IF Len(words) = 0 THEN <<>>
    ELSE <<SubSeq(words, 1, width)>> \o Chunks(SubSeq(words, width + 1, Len(words)), width)

FromBuffer(bytes, width) ==
    IF bytes.stray # 0 \/ Len(bytes.words) % width # 0
    THEN [err |-> "ValueError", data |-> <<>>]
    ELSE [err |-> "none", data |-> Chunks(bytes.words, width)]

\* The cvParam loop of decode_binary_array (lines 55-68): the last width
\* named wins, "64-bit float" after "32-bit float" within one name.
RECURSIVE ScanCv(_, _, _)
ScanCv(cv, k, acc) ==
    IF k > Len(cv) THEN acc
    ELSE LET name == Lower(cv[k])
             a1 == IF Contains("32-bit float", name) THEN [acc EXCEPT !.width = 1] ELSE acc
             a2 == IF Contains("64-bit float", name) THEN [a1 EXCEPT !.width = 2] ELSE a1
             a3 == IF Contains("zlib compression", name)
                   THEN [a2 EXCEPT !.compressed = TRUE] ELSE a2
             a4 == IF Contains("intensity array", name) \/ Contains("m/z array", name)
                   THEN [a3 EXCEPT !.array_name = cv[k]] ELSE a3
         IN  ScanCv(cv, k + 1, a4)

Failure(e) == [err |-> e, name |-> "unknown", data |-> <<>>]

\* decode_binary_array(binary_elem, ns): (array_name, data) or the exception.
decode_binary_array(binary_elem, nsmap) ==
    IF nsmap = None THEN Failure("SyntaxError")
    ELSE LET cv == ScanCv(binary_elem.cvParams, 1,
                          [width |-> 2, compressed |-> FALSE, array_name |-> "unknown"])
             b  == binary_elem.binary
         IN  IF ~b.present THEN Failure("AttributeError")
             ELSE IF ~b.b64ok THEN Failure("binascii.Error")
             ELSE IF cv.compressed /\ b.inflated = Corrupt THEN Failure("zlib.error")
             ELSE LET decoded == IF cv.compressed THEN b.inflated ELSE b.stream
                      buf == FromBuffer(decoded, cv.width)
                  IN  IF buf.err # "none" THEN Failure(buf.err)
                      ELSE [err |-> "none", name |-> cv.array_name, data |-> buf.data]

\* The cvParam loop of parse_mzml_full_spectra (lines 102-111): the last
\* parameter of each name wins; a missing one stays None.
RECURSIVE LastValue(_, _, _)
LastValue(params, name, k) ==
    IF k = 0 THEN None
    ELSE IF params[k].name = name THEN params[k].value
    ELSE LastValue(params, name, k - 1)

ParamValue(spectrum, name) == LastValue(spectrum.cvParams, name, Len(spectrum.cvParams))

NoError == "<absent>"

\* spectrum_info as created at lines 116-121 (no "binary_error" key yet).
NewSpectrumInfo(spectrum) ==
    [id                  |-> ScanId(spectrum.id),
     ms_level            |-> ParamValue(spectrum, "ms level"),
     base_peak_mz        |-> fmt_num_str(ParamValue(spectrum, "base peak m/z")),
     base_peak_intensity |-> fmt_num_str(ParamValue(spectrum, "base peak intensity")),
     binary_error        |-> NoError]

\* Mutant of ResetArray: the arrays are initialised once, before the loop over
\* the spectra, so a spectrum starts with its predecessor's arrays.
ResetArrayStale(previous) == previous

\* Lines 124-125: both arrays start as None for every spectrum.
ResetArray(previous) == NoList

\* root.findall / spectrum.findall with a "ns:"-prefixed path: a SyntaxError
\* ("prefix 'ns' not found in prefix map") when the namespace map is None.
FindallPrefixed(children, nsmap) ==
    IF nsmap = None THEN [err |-> "SyntaxError", found |-> <<>>]
    ELSE [err |-> "none", found |-> children]

\* Mutant of ArrayStep: no try/except around the decoding, so the exception
\* leaves parse_mzml_full_spectra.
ArrayStepUncaught(st, binary_elem, nsmap) ==
    LET r == decode_binary_array(binary_elem, nsmap)
    IN  IF r.err # "none"
        THEN [st EXCEPT !.raised = r.err]
        ELSE IF Contains("m/z", Lower(r.name))
        THEN [st EXCEPT !.mz = SomeList(r.data)]
        ELSE IF Contains("intensity", Lower(r.name))
        THEN [st EXCEPT !.intensity = SomeList(r.data)]
        ELSE st

\* One pass of the body of the binaryDataArray loop (lines 127-134).
ArrayStep(st, binary_elem, nsmap) ==
    LET r == decode_binary_array(binary_elem, nsmap)
    IN  IF r.err # "none"
        THEN [st EXCEPT !.info.binary_error = r.err]
        ELSE IF Contains("m/z", Lower(r.name))
        THEN [st EXCEPT !.mz = SomeList(r.data)]
        ELSE IF Contains("intensity", Lower(r.name))
        THEN [st EXCEPT !.intensity = SomeList(r.data)]
        ELSE st

\* Lines 136-137: the record as appended.
FinishRecord(info, mzs, intensities) ==
    [id                  |-> info.id,
     ms_level            |-> info.ms_level,
     base_peak_mz        |-> info.base_peak_mz,
     base_peak_intensity |-> info.base_peak_intensity,
     binary_error        |-> info.binary_error,
     m_z_array           |-> mzs,
     intensity_array     |-> intensities]

NoInfo == [id |-> None, ms_level |-> None, base_peak_mz |-> None,
           base_peak_intensity |-> None, binary_error |-> NoError]

-----------------------------------------------------------------------------
(* parse_mzml_full_spectra as a state machine *)

\* The URI found in the root tag of a namespaced document.
MzmlUri == "http://psi.hupo.org/ms/mzml"

ParserIdle ==
    /\ doc = [ns |-> FALSE, spectra |-> <<>>]
    /\ pc = "idle"
    /\ ns = None
    /\ spectrum_iter = <<>>
    /\ i = 1
    /\ spectrum_info = NoInfo
    /\ m_z_array = NoList
    /\ intensity_array = NoList
    /\ binary_iter = <<>>
    /\ j = 1
    /\ spectra_data = <<>>
    /\ error = "none"

ParserInit ==
    /\ doc \in Documents
    /\ pc = "start"
    /\ ns = None
    /\ spectrum_iter = <<>>
    /\ i = 1
    /\ spectrum_info = NoInfo
    /\ m_z_array = NoList
    /\ intensity_array = NoList
    /\ binary_iter = <<>>
    /\ j = 1
    /\ spectra_data = <<>>
    /\ error = "none"

\* Lines 87-95: the namespace of the root tag, the spectrum nodes.
ParseStart ==
    /\ UNCHANGED <<kmdVars, plotVars, augVars, mainVars>>
    /\ pc = "start"
    /\ ns' = IF doc.ns THEN MzmlUri ELSE None
    /\ spectrum_iter' = doc.spectra
    /\ spectra_data' = <<>>
    /\ i' = 1
    /\ pc' = "loop"
    /\ UNCHANGED <<doc, spectrum_info, m_z_array, intensity_array, binary_iter, j, error>>

\* Lines 97-114: a spectrum whose ms level is not "1" is skipped.
SkipSpectrum ==
    /\ UNCHANGED <<kmdVars, plotVars, augVars, mainVars>>
    /\ pc = "loop"
    /\ i <= Len(spectrum_iter)
    /\ ParamValue(spectrum_iter[i], "ms level") # "1"
    /\ i' = i + 1
    /\ UNCHANGED <<doc, pc, ns, spectrum_iter, spectrum_info, m_z_array,
                   intensity_array, binary_iter, j, spectra_data, error>>

\* Lines 97-126: an MS1 spectrum: the record is created, the arrays reset and
\* the binaryDataArray children looked up.
OpenSpectrum ==
    /\ UNCHANGED <<kmdVars, plotVars, augVars, mainVars>>
    /\ pc = "loop"
    /\ i <= Len(spectrum_iter)
    /\ ParamValue(spectrum_iter[i], "ms level") = "1"
    /\ spectrum_info' = NewSpectrumInfo(spectrum_iter[i])
    /\ m_z_array' = ResetArray(m_z_array)
    /\ intensity_array' = ResetArray(intensity_array)
    /\ LET f == FindallPrefixed(spectrum_iter[i].arrays, ns)
       IN  /\ binary_iter' = f.found
           /\ j' = 1
           /\ pc' = IF f.err = "none" THEN "arrays" ELSE "raised"
           /\ error' = f.err
    /\ UNCHANGED <<doc, ns, spectrum_iter, i, spectra_data>>

\* Lines 127-134: one binaryDataArray is decoded and assigned by kind, or
\* its exception recorded on the record.
DecodeArray ==
    /\ UNCHANGED <<kmdVars, plotVars, augVars, mainVars>>
    /\ pc = "arrays"
    /\ j <= Len(binary_iter)
    /\ LET st == ArrayStep([info |-> spectrum_info, mz |-> m_z_array,
                            intensity |-> intensity_array, raised |-> "none"],
                           binary_iter[j], ns)
       IN  /\ spectrum_info' = st.info
           /\ m_z_array' = st.mz
           /\ intensity_array' = st.intensity
           /\ error' = st.raised
           /\ pc' = IF st.raised = "none" THEN "arrays" ELSE "raised"
    /\ j' = j + 1
    /\ UNCHANGED <<doc, ns, spectrum_iter, i, binary_iter, spectra_data>>

\* Lines 136-139: the record is completed and appended.
EmitRecord ==
    /\ UNCHANGED <<kmdVars, plotVars, augVars, mainVars>>
    /\ pc = "arrays"
    /\ j > Len(binary_iter)
    /\ spectra_data' = Append(spectra_data,
                              FinishRecord(spectrum_info, m_z_array, intensity_array))
    /\ i' = i + 1
    /\ pc' = "loop"
    /\ UNCHANGED <<doc, ns, spectrum_iter, spectrum_info, m_z_array, intensity_array,
                   binary_iter, j, error>>

\* Line 141.
Return ==
    /\ UNCHANGED <<kmdVars, plotVars, augVars, mainVars>>
    /\ pc = "loop"
    /\ i > Len(spectrum_iter)
    /\ pc' = "done"
    /\ UNCHANGED <<doc, ns, spectrum_iter, i, spectrum_info, m_z_array,
                   intensity_array, binary_iter, j, spectra_data, error>>

\* The calculator and plot_data at rest, while the parser runs.
KmdIdle ==
    /\ mz = <<>>
    /\ kmd = [fractional |-> <<>>, round |-> <<>>]

NoArgs == [data |-> <<>>, method |-> "round", max_points |-> <<>>,
           band_margin |-> [n |-> 0, d |-> 1]]

PlotIdle ==
    /\ args = NoArgs
    /\ lower_x = <<>>
    /\ upper_x = <<>>
    /\ ppc = "idle"
    /\ x = <<>>
    /\ y = <<>>
    /\ c = <<>>
    /\ x_band = <<>>
    /\ y_low = <<>>
    /\ y_high = <<>>
    /\ inside_mask = <<>>
    /\ c_plot = <<>>
    /\ noise = <<>>

\* safe_float and augment_and_compute at rest.
AugIdle ==
    /\ val = NoneVal
    /\ sf_out = [called |-> FALSE, raised |-> FALSE, value |-> <<>>]
    /\ json_data = <<>>
    /\ filtered = <<>>
    /\ rec_i = 1
    /\ apc = "idle"

\* main at rest.
MainIdle ==
    /\ cli = [augment |-> FALSE, csv |-> FALSE, method |-> "round"]
    /\ files = [json |-> <<>>, bak |-> <<>>, csv |-> <<>>]
    /\ loaded = <<>>
    /\ bak = "None"
    /\ original = <<>>
    /\ mpc = "idle"

Init == ParserInit /\ KmdIdle /\ PlotIdle /\ AugIdle /\ MainIdle

Next ==
    \/ ParseStart
    \/ SkipSpectrum
    \/ OpenSpectrum
    \/ DecodeArray
    \/ EmitRecord
    \/ Return

Spec == Init /\ [][Next]_vars

-----------------------------------------------------------------------------
(* What the document says, stated without the parser's loops.              *)

IsMS1(s) == \E k \in 1..Len(s.cvParams) :
                s.cvParams[k].name = "ms level" /\ s.cvParams[k].value = "1"

\* The MS1 spectra of the document, in document order.
Ms1Spectra == SelectSeq(doc.spectra, IsMS1)

Decoded(b) == decode_binary_array(b, MzmlUri)

FailedArrays(s) == {k \in 1..Len(s.arrays) : Decoded(s.arrays[k]).err # "none"}

HasFailure(s) == FailedArrays(s) # {}

OkArraysOfKind(s, kind) ==
    {k \in 1..Len(s.arrays) :
        /\ Decoded(s.arrays[k]).err = "none"
        /\ Contains(kind, Lower(Decoded(s.arrays[k]).name))}

\* The last array of the kind that decoded, None when there is none.
LastOkArray(s, kind) ==
    IF OkArraysOfKind(s, kind) = {} THEN NoList
    ELSE SomeList(Decoded(s.arrays[MaxOf(OkArraysOfKind(s, kind))]).data)

DecodeErrors == {"AttributeError", "binascii.Error", "zlib.error", "ValueError"}

Finished == pc \in {"done", "raised"}

BasePeaksKept(r, s) ==
    /\ r.id = ScanId(s.id)
    /\ r.ms_level = "1"
    /\ r.base_peak_mz = fmt_num_str(ParamValue(s, "base peak m/z"))
    /\ r.base_peak_intensity = fmt_num_str(ParamValue(s, "base peak intensity"))

\* The record a spectrum yields, from that spectrum alone.
ExpectedRecord(s) ==
    [id                  |-> ScanId(s.id),
     ms_level            |-> "1",
     base_peak_mz        |-> fmt_num_str(ParamValue(s, "base peak m/z")),
     base_peak_intensity |-> fmt_num_str(ParamValue(s, "base peak intensity")),
     binary_error        |-> IF HasFailure(s)
                             THEN Decoded(s.arrays[MaxOf(FailedArrays(s))]).err
                             ELSE NoError,
     m_z_array           |-> LastOkArray(s, "m/z"),
     intensity_array     |-> LastOkArray(s, "intensity")]

-----------------------------------------------------------------------------
(* Claims about parse_mzml_full_spectra (specification Spec)               *)

\* C1: for any document, once the parser has finished it has returned exactly
\* one record per spectrum whose "ms level" is "1", none for any other
\* spectrum, in document order, without reordering or deduplication.
C1_Ms1RecordsInDocumentOrder ==
    Finished =>
        /\ pc = "done"
        /\ Len(spectra_data) = Len(Ms1Spectra)
        /\ \A k \in 1..Len(spectra_data) :
              /\ spectra_data[k].ms_level = "1"
              /\ spectra_data[k].id = ScanId(Ms1Spectra[k].id)
              /\ spectra_data[k].m_z_array = LastOkArray(Ms1Spectra[k], "m/z")

\* C2: a binaryDataArray whose decoding fails (bad base64, corrupt zlib
\* stream, misaligned byte length, missing <binary>) never makes the parser
\* raise; the owning record is emitted with a binary_error, the failed array
\* contributes nothing (its field is None unless another array of that kind
\* decoded), and id, ms_level, base-peak fields and the arrays that decoded
\* are kept.
C2_DecodeFailureIsRecorded ==
    /\ error \notin DecodeErrors
    /\ (pc = "done" /\ doc.ns) => Len(spectra_data) = Len(Ms1Spectra)
    /\ (pc = "arrays" /\ \E k \in 1..(j - 1) : Decoded(binary_iter[k]).err # "none")
          => spectrum_info.binary_error \in DecodeErrors
    /\ \A k \in 1..Len(spectra_data) :
          HasFailure(Ms1Spectra[k]) =>
              /\ spectra_data[k].binary_error \in DecodeErrors
              /\ BasePeaksKept(spectra_data[k], Ms1Spectra[k])
              /\ spectra_data[k].m_z_array = LastOkArray(Ms1Spectra[k], "m/z")
              /\ spectra_data[k].intensity_array = LastOkArray(Ms1Spectra[k], "intensity")
              /\ \A kind \in {"m/z", "intensity"} :
                    OkArraysOfKind(Ms1Spectra[k], kind) = {}
                        => IF kind = "m/z"
                           THEN spectra_data[k].m_z_array = NoList
                           ELSE spectra_data[k].intensity_array = NoList

\* Witness of C2: the parser returned a record that carries a binary_error,
\* lost one array and kept the other.
C2_Witness ==
    /\ pc = "done"
    /\ \E k \in 1..Len(spectra_data) :
          /\ spectra_data[k].binary_error = "zlib.error"
          /\ spectra_data[k].m_z_array # NoList
          /\ spectra_data[k].intensity_array = NoList

\* C3: every emitted record is determined by its own spectrum alone, whatever
\* happened while decoding the other spectra, and carries a binary_error
\* exactly when one of its own arrays failed to decode.
C3_FailureStaysInItsSpectrum ==
    \A k \in 1..Len(spectra_data) :
        /\ spectra_data[k] = ExpectedRecord(Ms1Spectra[k])
        /\ spectra_data[k].binary_error # NoError <=> HasFailure(Ms1Spectra[k])

\* Witness of C3: a record with a decode failure is followed by the complete,
\* error-free record of the next spectrum.
C3_Witness ==
    /\ pc = "done"
    /\ Len(spectra_data) = 2
    /\ spectra_data[1].binary_error # NoError
    /\ spectra_data[1].m_z_array = NoList
    /\ spectra_data[2].binary_error = NoError
    /\ spectra_data[2].m_z_array # NoList
    /\ spectra_data[2].intensity_array # NoList

\* C4: in every emitted record, a present m/z array comes with a present
\* intensity array of the same length.
C4_ArraysPairedAndAligned ==
    \A k \in 1..Len(spectra_data) :
        spectra_data[k].m_z_array # NoList =>
            /\ spectra_data[k].intensity_array # NoList
            /\ Len(spectra_data[k].m_z_array[1]) = Len(spectra_data[k].intensity_array[1])

\* C5: a document without a default namespace is extracted without error to
\* the records its spectra determine, the same as its namespaced twin.
C5_NamespaceIndependent ==
    (Finished /\ ~doc.ns) =>
        /\ error = "none"
        /\ spectra_data = [k \in 1..Len(Ms1Spectra) |-> ExpectedRecord(Ms1Spectra[k])]

\* C6: a document without any spectrum node ends in a fatal error, never in a
\* normal return.
C6_NoSpectrumIsFatal ==
    Len(doc.spectra) = 0 => pc # "done"

-----------------------------------------------------------------------------
(* Kendrick calculator (Graph.py lines 11-41)                              *)

\* CH2_EXACT_MASS = 14.01565, CH2_NOMINAL_MASS = 14.0
CH2_EXACT_MASS == Rat(1401565, 100000)

CH2_NOMINAL_MASS == RatInt(14)

kendrick_mass(m) == RatMul(m, RatDiv(CH2_NOMINAL_MASS, CH2_EXACT_MASS))

kmd_fractional(m) ==
    LET km == kendrick_mass(m)
    IN  RatSub(km, RatInt(Floor(km)))

kmd_round(m) ==
    LET km == kendrick_mass(m)
    IN  RatSub(RatInt(RoundHalfEven(km)), km)

\* The m/z inputs: every m/z whose Kendrick mass is a multiple of 1/4 up to
\* MaxKmQuarters quarters (so whole, half and quarter Kendrick masses occur),
\* and the m/z values 14, 28, 42.
MaxKmQuarters == 40

MzInputs ==
    {RatDiv(Rat(q, 4), RatDiv(CH2_NOMINAL_MASS, CH2_EXACT_MASS)) : q \in 0..MaxKmQuarters}
    \cup {RatInt(14 * k) : k \in 1..3}

KmdInit ==
    /\ mz \in {<<m>> : m \in MzInputs}
    /\ kmd = [fractional |-> <<>>, round |-> <<>>]

CallKmdFractional ==
    /\ mz # <<>>
    /\ kmd.fractional = <<>>
    /\ kmd' = [kmd EXCEPT !.fractional = <<kmd_fractional(mz[1])>>]
    /\ UNCHANGED <<mz, parserVars, plotVars, augVars, mainVars>>

CallKmdRound ==
    /\ mz # <<>>
    /\ kmd.round = <<>>
    /\ kmd' = [kmd EXCEPT !.round = <<kmd_round(mz[1])>>]
    /\ UNCHANGED <<mz, parserVars, plotVars, augVars, mainVars>>

InitKmd == ParserIdle /\ KmdInit /\ PlotIdle /\ AugIdle /\ MainIdle

NextKmd ==
    \/ CallKmdFractional
    \/ CallKmdRound

SpecKmd == InitKmd /\ [][NextKmd]_vars

\* C7: kmd_fractional(mz) lies in [0, 1) and kmd_round(mz) in (-1/2, 1/2].
C7_DefectRanges ==
    /\ kmd.fractional # <<>> =>
          /\ RatLeq(RatInt(0), kmd.fractional[1])
          /\ RatLt(kmd.fractional[1], RatInt(1))
    /\ kmd.round # <<>> =>
          /\ RatLt(Rat(0 - 1, 2), kmd.round[1])
          /\ RatLeq(kmd.round[1], Rat(1, 2))

-----------------------------------------------------------------------------
(* plot_data (Graph.py lines 75-261): pooling, band, tiling, noise.        *)
(* The drawing itself (lines 184-259) changes nothing that is returned in  *)
(* "Noise" and is left out.  An intensity is represented by its natural    *)
(* logarithm k (the intensity is e^k), so that the geometric mean is the   *)
(* exponential of an exact rational; the returned noise is kept as that    *)
(* rational exponent, together with the side on which the floating-point   *)
(* result of log, mean and exp lies of the exact value.                    *)

Point(px, kround, kfraction, intensity) ==
    [x |-> px, round |-> kround, fraction |-> kfraction, c |-> intensity]

PointA == Point(RatInt(40), RatInt(0), RatInt(0), 2)

PointB == Point(RatInt(40), Rat(1, 4), Rat(1, 4), 0)

PointC == Point(RatInt(890), Rat(0 - 1, 4), Rat(3, 4), 1)

PointD == Point(RatInt(100), Rat(1, 2), Rat(1, 2), 0 - 1)

\* An augmented record holding the given points in full-array mode.
FullRecord(points) ==
    [m_z_array         |-> SomeList([k \in 1..Len(points) |-> points[k].x]),
     intensity_array   |-> SomeList([k \in 1..Len(points) |-> points[k].c]),
     kendrick_round    |-> [k \in 1..Len(points) |-> points[k].round],
     kendrick_fraction |-> [k \in 1..Len(points) |-> points[k].fraction]]

\* A record without arrays, augmented from its base peak.
BasePeakRecord ==
    [m_z_array |-> NoList, intensity_array |-> NoList,
     kendrick_round |-> <<Rat(1, 4)>>, kendrick_fraction |-> <<Rat(1, 4)>>]

\* The records plot_data is given: their m/z, intensity and Kendrick arrays
\* have one entry per peak (the SpectrumRecord invariant NoiseBandEstimator
\* is specified under); the Kendrick fields are read as stored.
RecordPool ==
    {BasePeakRecord, FullRecord(<<>>), FullRecord(<<PointA>>),
     FullRecord(<<PointB, PointA>>), FullRecord(<<PointC, PointD>>),
     FullRecord(<<PointD>>)}

\* Largest number of records in data.
MaxRecords == 2

MethodOptions == {"round", "fractional"}

\* (lower_x, upper_x): the defaults, a range around all the data, a range
\* beyond all the data, a range between the data's smallest and largest m/z
\* that holds none of the points.
BoundsOptions ==
    {<<NoList, NoList>>,
     <<SomeList(RatInt(10)), SomeList(RatInt(1000))>>,
     <<SomeList(RatInt(1000)), SomeList(RatInt(2000))>>,
     <<SomeList(RatInt(50)), SomeList(RatInt(60))>>}

\* max_points: None, 0 (falsy, no downsampling) and two thresholds.
MaxPointsOptions == {<<>>, <<0>>, <<1>>, <<2>>}

\* band_margin: the default 0.05, none, a wide one and a negative one.
MarginOptions == {RatInt(0), Rat(1, 20), Rat(1, 2), Rat(0 - 1, 20)}

\* slope = 0.0011232
slope == Rat(11232, 10000000)

\* tile_range = np.arange(-6, 7)
tile_range == [k \in 1..13 |-> k - 7]

\* The divisor of window_size = max(1, len(x_sorted)//100).
WindowDivisor == 100

\* The sum of a sequence, by halves.
RECURSIVE RatSum(_)
RatSum(s) ==
    IF Len(s) = 0 THEN RatInt(0)
    ELSE IF Len(s) = 1 THEN s[1]
    ELSE RatAdd(RatSum(SubSeq(s, 1, Len(s) \div 2)),
                RatSum(SubSeq(s, (Len(s) \div 2) + 1, Len(s))))

RatMin(s) == CHOOSE m \in Range(s) : \A o \in Range(s) : RatLeq(m, o)

RatMax(s) == CHOOSE m \in Range(s) : \A o \in Range(s) : RatLeq(o, m)

\* np.mean
Mean(s) == RatDiv(RatSum(s), RatInt(Len(s)))

Truthy(list) == list # NoList /\ Len(list[1]) > 0

\* Lines 93-104: the arrays of every record that has both.
RECURSIVE Pool(_, _)
Pool(data, method) ==
    IF Len(data) = 0 THEN [x |-> <<>>, y |-> <<>>, c |-> <<>>]
    ELSE LET rec  == Head(data)
             rest == Pool(Tail(data), method)
         IN  IF Truthy(rec.m_z_array) /\ Truthy(rec.intensity_array)
             THEN [x |-> rec.m_z_array[1] \o rest.x,
                   y |-> (IF method = "fractional" THEN rec.kendrick_fraction
                                                   ELSE rec.kendrick_round) \o rest.y,
                   c |-> rec.intensity_array[1] \o rest.c]
             ELSE rest

\* The number of entries of xs strictly below each entry.
Ranks(xs) ==
    <<>> \o [a \in 1..Len(xs) |->
                Cardinality({b \in 1..Len(xs) : RatLt(xs[b], xs[a])})]

\* The orders in which the indices of one set can come.
RECURSIVE Orderings(_)
Orderings(S) ==
    IF S = {} THEN {<<>>}
    ELSE UNION {{<<m>> \o rest : rest \in Orderings(S \ {m})} : m \in S}

\* np.argsort(x): an index order in which x ascends.  The default sort kind
\* is not stable, so equal m/z (the indices of one rank) may come in either
\* order.  The orders of the indices of rank first..last, by halves.
RECURSIVE SortedOrders(_, _, _)
SortedOrders(ranks, first, last) ==
    IF first = last THEN Orderings({a \in 1..Len(ranks) : ranks[a] = first})
    ELSE {lower \o upper :
             lower \in SortedOrders(ranks, first, (first + last) \div 2),
             upper \in SortedOrders(ranks, ((first + last) \div 2) + 1, last)}

ArgSorts(xs) ==
    IF Len(xs) = 0 THEN {<<>>} ELSE SortedOrders(Ranks(xs), 0, Len(xs) - 1)

\* Mutant of WindowBounds: the margin is added to the lower bound and taken
\* from the upper one.
WindowBoundsMarginSwapped(y_chunk, x_mean, band_margin) ==
    [low  |-> RatAdd(RatAdd(RatMin(y_chunk), RatMul(slope, x_mean)), band_margin),
     high |-> RatSub(RatAdd(RatMax(y_chunk), RatMul(slope, x_mean)), band_margin)]

\* Lines 137-138: the window's min/max KMD, shifted by slope * x_mean and
\* widened by the margin.
WindowBounds(y_chunk, x_mean, band_margin) ==
    [low  |-> RatSub(RatAdd(RatMin(y_chunk), RatMul(slope, x_mean)), band_margin),
     high |-> RatAdd(RatAdd(RatMax(y_chunk), RatMul(slope, x_mean)), band_margin)]

\* Mutant of WindowSize: len(x_sorted)/100 rounded up instead of down.
WindowSizeRoundedUp(n) == (n + WindowDivisor - 1) \div WindowDivisor

\* Line 127.
WindowSize(n) == IF n \div WindowDivisor > 1 THEN n \div WindowDivisor ELSE 1

\* Lines 130-138: the band point of the window that begins at index first.
Window(x_sorted, y_sorted, band_margin, first) ==
    LET w == WindowSize(Len(x_sorted))
        last == IF first + w - 1 < Len(x_sorted) THEN first + w - 1
                                                 ELSE Len(x_sorted)
        x_chunk == SubSeq(x_sorted, first, last)
        y_chunk == SubSeq(y_sorted, first, last)
        x_mean == Mean(x_chunk)
        b == WindowBounds(y_chunk, x_mean, band_margin)
    IN  [x |-> x_mean, low |-> b.low, high |-> b.high]

\* Lines 129-138: one band point per window of window_size sorted points,
\* from the window that begins at index start onwards: range(start - 1,
\* len(x_sorted), window_size) in the code's 0-based indices.
Windows(x_sorted, y_sorted, band_margin, start) ==
    LET w == WindowSize(Len(x_sorted))
        count == (Len(x_sorted) - start + w) \div w
    IN  <<>> \o [q \in 1..count |->
                    Window(x_sorted, y_sorted, band_margin, start + (q - 1) * w)]

\* Lines 146-147: the first and last value repeated at the two ends.
ExtendEnds(values) == <<Head(values)>> \o values \o <<values[Len(values)]>>

\* np.interp(xq, xp, fp) for ascending xp: fp's end values outside xp's range,
\* fp at the last breakpoint equal to xq, else the line through the two
\* breakpoints around xq.
Interp(xq, xp, fp) ==
    IF RatLt(xq, xp[1]) THEN fp[1]
    ELSE IF RatLt(xp[Len(xp)], xq) THEN fp[Len(fp)]
    ELSE LET k == MaxOf({q \in 1..Len(xp) : RatLeq(xp[q], xq)})
         IN  IF k = Len(xp) \/ xp[k] = xq THEN fp[k]
             ELSE RatAdd(fp[k],
                         RatMul(RatDiv(RatSub(fp[k + 1], fp[k]), RatSub(xp[k + 1], xp[k])),
                                RatSub(xq, xp[k])))

\* Lines 154-157: replica t of the tiled arrays is point PointOf(t) shifted by
\* tile_range[ShiftOf(t)].
TileCount(n) == Len(tile_range) * n

PointOf(t) == ((t - 1) % Len(x)) + 1

ShiftOf(t) == ((t - 1) \div Len(x)) + 1

TileX(t) == x[PointOf(t)]

TileY(t) == RatAdd(y[PointOf(t)], RatInt(tile_range[ShiftOf(t)]))

TileC(t) == c[PointOf(t)]

\* Lines 159-160: interp(x_tiles, x_band, fp).  Every replica of a point has
\* the point's m/z, so the band is interpolated once per pooled point.
BandAtPoints(fp, p) ==
    <<>> \o [k \in 1..(Len(x) - p + 1) |-> Interp(x[p + k - 1], x_band, fp)]

\* Lines 162-167.  The m/z range is tested first: np.interp promises nothing
\* for a point inside [lower_x, upper_x] when x_band does not ascend, and the
\* inputs leave no point there in that case.
Inside(t, band_lower, band_upper) ==
    /\ RatLeq(lower_x[1], TileX(t))
    /\ RatLeq(TileX(t), upper_x[1])
    /\ RatLeq(band_lower[PointOf(t)], TileY(t))
    /\ RatLeq(TileY(t), band_upper[PointOf(t)])

\* inside_mask: one boolean per replica, replica t onwards.
InsideMask(t, band_lower, band_upper) ==
    <<>> \o [k \in 1..(TileCount(Len(x)) - t + 1) |->
                Inside(t + k - 1, band_lower, band_upper)]

\* Mutant of LogFloored: the logarithm without the floor at 1.0.
LogUnfloored(k) == k

\* np.log(np.maximum(c, 1.0)), on an intensity e^k.
LogFloored(k) == IF k < 0 THEN 0 ELSE k

\* The entries of values at the indices first..last whose mask bit is set, in
\* order, by halves.
RECURSIVE MaskedBetween(_, _, _, _)
MaskedBetween(mask, values, first, last) ==
    IF first > last THEN <<>>
    ELSE IF first = last THEN (IF mask[first] THEN <<values[first]>> ELSE <<>>)
    ELSE MaskedBetween(mask, values, first, (first + last) \div 2)
            \o MaskedBetween(mask, values, ((first + last) \div 2) + 1, last)

\* values[mask]: the entries whose mask bit is set, in order, from replica t
\* onwards.
Masked(mask, values, t) == MaskedBetween(mask, values, t, Len(mask))

\* np.log(np.maximum(c_tiles, 1.0)), one entry per replica.
LogTiles == [t \in 1..TileCount(Len(x)) |-> LogFloored(TileC(t))]

NoNoise == <<>>

\* The float e^exponent, rounded to the given side of the exact value.
Float64Exp(exponent, rounding) == [exponent |-> exponent, rounding |-> rounding]

\* Mutant of EmptyBandNoise: a numeric fallback of 1.0 (= e^0).
EmptyBandNoiseOne == <<Float64Exp(RatInt(0), "exact")>>

\* Lines 106-108 and 173-174: "Noise": None.
EmptyBandNoise == NoNoise

\* np.log, np.mean and np.exp round to the nearest double: log(1.0) = 0.0,
\* a mean of zeros and exp(0.0) = 1.0 are exact; any other result may lie on
\* either side of the exact value (math.exp(math.log(3.0)) is
\* 3.0000000000000004, math.exp(math.log(5.0)) is 4.999999999999999).
Roundings(exponent) ==
    IF exponent = RatInt(0) THEN {"exact"} ELSE {"below", "exact", "above"}

\* Line 182: the values float(np.exp(np.mean(c_plot))) can take, None for no
\* points.
NoiseLevel(logs) ==
    IF Len(logs) > 0
    THEN LET mean == RatDiv(RatSum([k \in 1..Len(logs) |-> RatInt(logs[k])]),
                            RatInt(Len(logs)))
         IN  {<<Float64Exp(mean, rounding)>> : rounding \in Roundings(mean)}
    ELSE {NoNoise}

\* Injective index sequences of the given length: np.random.choice(n, size,
\* replace=False).
Choices(n, size) ==
    {s \in [1..size -> 1..n] : \A a, b \in 1..size : a # b => s[a] # s[b]}

PlotInit ==
    /\ \E data \in SeqsUpTo(RecordPool, MaxRecords), method \in MethodOptions,
          max_points \in MaxPointsOptions, band_margin \in MarginOptions :
          args = [data |-> data, method |-> method, max_points |-> max_points,
                  band_margin |-> band_margin]
    /\ \E b \in BoundsOptions : lower_x = b[1] /\ upper_x = b[2]
    /\ ppc = "start"
    /\ x = <<>>
    /\ y = <<>>
    /\ c = <<>>
    /\ x_band = <<>>
    /\ y_low = <<>>
    /\ y_high = <<>>
    /\ inside_mask = <<>>
    /\ c_plot = <<>>
    /\ noise = <<>>

\* Lines 93-108: pooling; nothing pooled returns Noise None.
PoolPoints ==
    /\ ppc = "start"
    /\ \E pooled \in {Pool(args.data, args.method)} :
           /\ x' = pooled.x
           /\ y' = pooled.y
           /\ c' = pooled.c
           /\ ppc' = IF Len(pooled.x) = 0 THEN "returned" ELSE "pooled"
           /\ noise' = IF Len(pooled.x) = 0 THEN EmptyBandNoise ELSE noise
    /\ UNCHANGED <<args, lower_x, upper_x, x_band, y_low, y_high, inside_mask, c_plot>>
    /\ UNCHANGED <<parserVars, kmdVars, augVars, mainVars>>

\* Lines 110-147: default bounds, sort by m/z, windows, extended band.
BuildBand ==
    /\ ppc = "pooled"
    /\ lower_x' = IF lower_x = NoList THEN SomeList(RatMin(x)) ELSE lower_x
    /\ upper_x' = IF upper_x = NoList THEN SomeList(RatMax(x)) ELSE upper_x
    /\ \E sorted_idx \in ArgSorts(x) :
          LET x_sorted == [k \in 1..Len(x) |-> x[sorted_idx[k]]]
              y_sorted == [k \in 1..Len(x) |-> y[sorted_idx[k]]]
          IN  \E band \in {Windows(x_sorted, y_sorted, args.band_margin, 1)} :
                 /\ x_band' = <<lower_x'[1]>> \o [q \in 1..Len(band) |-> band[q].x]
                                              \o <<upper_x'[1]>>
                 /\ y_low' = ExtendEnds([q \in 1..Len(band) |-> band[q].low])
                 /\ y_high' = ExtendEnds([q \in 1..Len(band) |-> band[q].high])
    /\ ppc' = "banded"
    /\ UNCHANGED <<args, x, y, c, inside_mask, c_plot, noise>>
    /\ UNCHANGED <<parserVars, kmdVars, augVars, mainVars>>

\* Lines 149-174: tiling, the inside mask, the in-band log-intensities; an
\* empty selection returns Noise None.
ClassifyTiles ==
    /\ ppc = "banded"
    /\ \E band_lower \in {BandAtPoints(y_low, 1)},
          band_upper \in {BandAtPoints(y_high, 1)} :
          \E mask \in {InsideMask(1, band_lower, band_upper)} :
             \E logs \in {Masked(mask, LogTiles, 1)} :
                /\ inside_mask' = mask
                /\ c_plot' = logs
                /\ ppc' = IF Len(logs) = 0 THEN "returned" ELSE "classified"
                /\ noise' = IF Len(logs) = 0 THEN EmptyBandNoise ELSE noise
    /\ UNCHANGED <<args, lower_x, upper_x, x, y, c, x_band, y_low, y_high>>
    /\ UNCHANGED <<parserVars, kmdVars, augVars, mainVars>>

\* Lines 177-179: more in-band points than max_points: a random sample
\* without replacement replaces them.
Downsample ==
    /\ ppc = "classified"
    /\ args.max_points # <<>>
    /\ args.max_points[1] # 0
    /\ Len(c_plot) > args.max_points[1]
    /\ \E idx \in Choices(Len(c_plot), args.max_points[1]) :
          c_plot' = [k \in 1..args.max_points[1] |-> c_plot[idx[k]]]
    /\ ppc' = "sampled"
    /\ UNCHANGED <<args, lower_x, upper_x, x, y, c, x_band, y_low, y_high,
                   inside_mask, noise>>
    /\ UNCHANGED <<parserVars, kmdVars, augVars, mainVars>>

\* Line 177 false: all in-band points are kept.
KeepAll ==
    /\ ppc = "classified"
    /\ ~(/\ args.max_points # <<>>
         /\ args.max_points[1] # 0
         /\ Len(c_plot) > args.max_points[1])
    /\ ppc' = "sampled"
    /\ UNCHANGED <<args, lower_x, upper_x, x, y, c, x_band, y_low, y_high,
                   inside_mask, c_plot, noise>>
    /\ UNCHANGED <<parserVars, kmdVars, augVars, mainVars>>

\* Lines 182 and 261.
ReturnNoise ==
    /\ ppc = "sampled"
    /\ \E noise_level \in NoiseLevel(c_plot) : noise' = noise_level
    /\ ppc' = "returned"
    /\ UNCHANGED <<args, lower_x, upper_x, x, y, c, x_band, y_low, y_high,
                   inside_mask, c_plot>>
    /\ UNCHANGED <<parserVars, kmdVars, augVars, mainVars>>

InitPlot == ParserIdle /\ KmdIdle /\ PlotInit /\ AugIdle /\ MainIdle

NextPlot ==
    \/ PoolPoints
    \/ BuildBand
    \/ ClassifyTiles
    \/ Downsample
    \/ KeepAll
    \/ ReturnNoise

SpecPlot == InitPlot /\ [][NextPlot]_vars

\* The tiled points classified inside the band, as log-intensities (line 171):
\* the full in-band set, whatever is drawn from it afterwards.
FullInBandSet == Masked(inside_mask, LogTiles, 1)

\* The band has been built for a non-empty pooled input.
BandBuilt == ppc \in {"banded", "classified", "sampled", "returned"} /\ Len(x) > 0

\* The tiled points have been classified.
TilesClassified == ppc \in {"classified", "sampled", "returned"} /\ Len(x) > 0

\* C8: the returned noise is computed over the full set of in-band tiled
\* points, before any downsampling: whatever max_points is and whatever sample
\* is drawn, a returned numeric noise is the noise level of the full in-band set.
C8_NoiseFromFullInBandSet ==
    (ppc = "returned" /\ noise # NoNoise) => noise \in NoiseLevel(FullInBandSet)

\* C9: when no record contributes a point, or when no tiled point is
\* classified inside the band, plot_data returns Noise None and never a number.
C9_EmptyBandNoiseIsNone ==
    /\ (ppc # "start" /\ Len(x) = 0) => (ppc = "returned" /\ noise = NoNoise)
    /\ (TilesClassified /\ \A t \in 1..Len(inside_mask) : ~inside_mask[t])
          => (ppc = "returned" /\ noise = NoNoise)

\* Points were pooled, every replica of them was classified outside the band,
\* and the call has returned Noise None.
C9_Witness ==
    /\ ppc = "returned"
    /\ Len(x) > 0
    /\ Len(inside_mask) = TileCount(Len(x))
    /\ \A t \in 1..Len(inside_mask) : ~inside_mask[t]
    /\ noise = NoNoise

\* C10: for a non-empty pooled input and a non-negative band_margin, x_band,
\* y_low and y_high have the same length, the number of windows plus the two
\* edge points, and y_low[i] <= y_high[i] at every index, edges included.
C10_BandAlignedAndOrdered ==
    (BandBuilt /\ RatLeq(RatInt(0), args.band_margin)) =>
        /\ Len(x_band) = Len(y_low)
        /\ Len(y_low) = Len(y_high)
        /\ Len(x_band) = ((Len(x) + WindowSize(Len(x)) - 1) \div WindowSize(Len(x))) + 2
        /\ \A k \in 1..Len(y_low) : RatLeq(y_low[k], y_high[k])

\* A band over two or more pooled points with a positive margin, strictly
\* open at every index.
C10_Witness ==
    /\ ppc = "banded"
    /\ Len(x) >= 2
    /\ RatLt(RatInt(0), args.band_margin)
    /\ Len(x_band) = Len(x) + 2
    /\ \A k \in 1..Len(y_low) : RatLt(y_low[k], y_high[k])

\* C11: x_band is ascending and spans [lower_x, upper_x]: its first element is
\* lower_x, its last is upper_x and every window center lies between them,
\* for default bounds and for bounds the caller supplies.
C11_BandAscendingAndSpanning ==
    BandBuilt =>
        /\ x_band[1] = lower_x[1]
        /\ x_band[Len(x_band)] = upper_x[1]
        /\ \A k \in 1..(Len(x_band) - 1) : RatLeq(x_band[k], x_band[k + 1])
        /\ \A k \in 2..(Len(x_band) - 1) :
              RatLeq(lower_x[1], x_band[k]) /\ RatLeq(x_band[k], upper_x[1])

\* c_tiles[inside_mask] (line 171): the intensities, as exponents, of the
\* replicas classified inside the band.
InBandIntensities == Masked(inside_mask, [t \in 1..TileCount(Len(x)) |-> TileC(t)], 1)

\* C12: when every point classified inside the band has the same intensity I,
\* the returned noise is I (here: exactly e^k for the common exponent k),
\* whatever I is and however many replicas are inside.
C12_ConstantIntensityNoise ==
    (ppc = "returned" /\ noise # NoNoise) =>
        \A k \in Range(InBandIntensities) :
            (\A o \in Range(InBandIntensities) : o = k)
                => noise = <<Float64Exp(RatInt(k), "exact")>>

-----------------------------------------------------------------------------
(* safe_float (Graph.py lines 16-25).  A str is the sequence of its          *)
(* characters, float(str) is parsed character by character.                 *)

\* The characters the strings are made of: two digits, the comma, the
\* decimal point, the sign, a blank and a letter.
Chars == {"0", "1", ",", ".", "-", " ", "x"}

IsDigit(ch) == ch \in {"0", "1"}

DigitOf(ch) == IF ch = "1" THEN 1 ELSE 0

NotComma(ch) == ch # ","

RECURSIVE LStrip(_)
LStrip(s) == IF Len(s) > 0 /\ Head(s) = " " THEN LStrip(Tail(s)) ELSE s

RECURSIVE RStrip(_)
RStrip(s) ==
    IF Len(s) > 0 /\ s[Len(s)] = " " THEN RStrip(SubSeq(s, 1, Len(s) - 1)) ELSE s

\* The number a sequence of digits denotes.
RECURSIVE DigitsValue(_)
DigitsValue(s) ==
    IF Len(s) = 0 THEN 0
    ELSE 10 * DigitsValue(SubSeq(s, 1, Len(s) - 1)) + DigitOf(s[Len(s)])

RECURSIVE Pow10(_)
Pow10(k) == IF k = 0 THEN 1 ELSE 10 * Pow10(k - 1)

Parsed(number) == [err |-> "none", value |-> number]

NotParsed(e) == [err |-> e, value |-> [n |-> 0, d |-> 1]]

\* float(text) for a str: blanks around the number are ignored; then an
\* optional sign and digits with at most one decimal point and at least one
\* digit; anything else is a ValueError.
ParseFloat(text) ==
    LET t    == RStrip(LStrip(text))
        neg  == Len(t) > 0 /\ Head(t) = "-"
        body == IF neg THEN Tail(t) ELSE t
        dots == {k \in 1..Len(body) : body[k] = "."}
        ok   == /\ \A k \in 1..Len(body) : IsDigit(body[k]) \/ body[k] = "."
                /\ Cardinality(dots) <= 1
                /\ \E k \in 1..Len(body) : IsDigit(body[k])
        decimals  == IF dots = {} THEN 0 ELSE Len(body) - MaxOf(dots)
        magnitude == Rat(DigitsValue(SelectSeq(body, IsDigit)), Pow10(decimals))
    IN  IF ok THEN Parsed(IF neg THEN RatNeg(magnitude) ELSE magnitude)
        ELSE NotParsed("ValueError")

\* float(val): a float as it is, a str parsed, a TypeError for None or a list.
Float(value) ==
    CASE value.type = "float" -> Parsed(value.v)
      [] value.type = "str"   -> ParseFloat(value.s)
      [] OTHER                -> NotParsed("TypeError")

\* str(val) where line 23 can be reached: float(val) has failed, so val is a
\* str or a list (the empty list, "[]").
StrOf(value) ==
    CASE value.type = "str"  -> value.s
      [] value.type = "list" -> <<"[", "]">>

\* .replace(",", "")
RemoveCommas(s) == SelectSeq(s, NotComma)

Returned(result) == [called |-> TRUE, raised |-> FALSE, value |-> result]

Raised == [called |-> TRUE, raised |-> TRUE, value |-> <<>>]

\* Mutant of SecondTry: the inner try has no except, so the second failure
\* leaves safe_float.
SecondTryUncaught(value) ==
    LET second == ParseFloat(RemoveCommas(StrOf(value)))
    IN  IF second.err = "none" THEN Returned(<<second.value>>) ELSE Raised

\* Lines 21-25: the retry without commas, None when that fails too.
SecondTry(value) ==
    LET second == ParseFloat(RemoveCommas(StrOf(value)))
    IN  IF second.err = "none" THEN Returned(<<second.value>>) ELSE Returned(<<>>)

\* Lines 16-25.  The outcome: the float returned (<<>> for None), or raised.
safe_float(value) ==
    IF value.type = "NoneType" THEN Returned(<<>>)
    ELSE LET first == Float(value)
         IN  IF first.err = "none" THEN Returned(<<first.value>>)
             ELSE SecondTry(value)

-----------------------------------------------------------------------------
(* augment_and_compute (Graph.py lines 49-72).  A record's Kendrick keys    *)
(* are <<>> while the key is absent and <<list>> once it is set.            *)

JsonRecord(level, mzs, intensities, base_peak) ==
    [ms_level |-> level, m_z_array |-> mzs, intensity_array |-> intensities,
     base_peak_mz |-> base_peak,
     kendrick_mz |-> NoList, kendrick_fraction |-> NoList, kendrick_round |-> NoList]

\* m/z whose Kendrick masses are 14, 5/2 and 1/4.
MzKm14 == Rat(1401565, 100000)

MzKmHalf == Rat(280313, 112000)

MzKmQuarter == Rat(280313, 1120000)

\* (m_z_array, intensity_array): both None; an empty m/z list; no intensity
\* array; an empty intensity list; two peaks each; three m/z for two
\* intensities.
ArrayOptions ==
    {<<NoList, NoList>>,
     <<SomeList(<<>>), SomeList(<<1, 2>>)>>,
     <<SomeList(<<MzKm14>>), NoList>>,
     <<SomeList(<<MzKm14>>), SomeList(<<>>)>>,
     <<SomeList(<<MzKmHalf, MzKm14>>), SomeList(<<1, 2>>)>>,
     <<SomeList(<<MzKm14, MzKmQuarter, MzKmHalf>>), SomeList(<<1, 2>>)>>}

\* base_peak_mz: missing, a decimal string, with a thousands comma, no
\* number at all, zero.
BasePeakOptions ==
    {NoneVal, StrVal(<<"1", "0", ".", "1">>), StrVal(<<"1", ",", "0", "0", "1">>),
     StrVal(<<"x">>), StrVal(<<"0">>)}

JsonRecordPool ==
    {JsonRecord("1", a[1], a[2], b) : a \in ArrayOptions, b \in BasePeakOptions}
    \cup {JsonRecord("2", SomeList(<<MzKm14>>), SomeList(<<1>>), NoneVal),
          JsonRecord("None", NoList, NoList, StrVal(<<"1", "0", ".", "1">>))}

\* Largest number of records in the JSON file.
MaxJsonRecords == 2

IsMs1Record(rec) == rec.ms_level = "1"

\* Mutant of UsesFullArrays: only the m/z array is looked at.
UsesFullArraysMzOnly(rec) == Truthy(rec.m_z_array)

\* Line 59: if mz_array and intensity_array.
UsesFullArrays(rec) == Truthy(rec.m_z_array) /\ Truthy(rec.intensity_array)

\* Lines 61-63: one Kendrick value per m/z.
FullArrayMode(rec) ==
    LET mzs == rec.m_z_array[1]
    IN  [rec EXCEPT
            !.kendrick_mz       = SomeList([k \in 1..Len(mzs) |-> kendrick_mass(mzs[k])]),
            !.kendrick_fraction = SomeList([k \in 1..Len(mzs) |-> kmd_fractional(mzs[k])]),
            !.kendrick_round    = SomeList([k \in 1..Len(mzs) |-> kmd_round(mzs[k])])]

\* A float is truthy unless it is zero; None is not.
TruthyFloat(number) == number # <<>> /\ number[1].n # 0

\* Lines 66-69: one value from the base peak, none when safe_float gave None
\* (or zero).
BasePeakMode(rec) ==
    LET m == safe_float(rec.base_peak_mz).value
    IN  [rec EXCEPT
            !.kendrick_mz       = SomeList(IF TruthyFloat(m) THEN <<kendrick_mass(m[1])>> ELSE <<>>),
            !.kendrick_fraction = SomeList(IF TruthyFloat(m) THEN <<kmd_fractional(m[1])>> ELSE <<>>),
            !.kendrick_round    = SomeList(IF TruthyFloat(m) THEN <<kmd_round(m[1])>> ELSE <<>>)]

AugInit ==
    /\ val = NoneVal
    /\ sf_out = [called |-> FALSE, raised |-> FALSE, value |-> <<>>]
    /\ json_data \in SeqsUpTo(JsonRecordPool, MaxJsonRecords)
    /\ filtered = <<>>
    /\ rec_i = 1
    /\ apc = "start"

\* Line 53.
FilterMs1 ==
    /\ apc = "start"
    /\ filtered' = SelectSeq(json_data, IsMs1Record)
    /\ rec_i' = 1
    /\ apc' = "loop"
    /\ UNCHANGED <<val, sf_out, json_data>>
    /\ UNCHANGED <<parserVars, kmdVars, plotVars, mainVars>>

\* Lines 55-63.
AugmentFullArrays ==
    /\ apc = "loop"
    /\ rec_i <= Len(filtered)
    /\ UsesFullArrays(filtered[rec_i])
    /\ filtered' = [filtered EXCEPT ![rec_i] = FullArrayMode(filtered[rec_i])]
    /\ rec_i' = rec_i + 1
    /\ UNCHANGED <<val, sf_out, json_data, apc>>
    /\ UNCHANGED <<parserVars, kmdVars, plotVars, mainVars>>

\* Lines 55-59 and 64-69.
AugmentBasePeak ==
    /\ apc = "loop"
    /\ rec_i <= Len(filtered)
    /\ ~UsesFullArrays(filtered[rec_i])
    /\ filtered' = [filtered EXCEPT ![rec_i] = BasePeakMode(filtered[rec_i])]
    /\ rec_i' = rec_i + 1
    /\ apc' = IF safe_float(filtered[rec_i].base_peak_mz).raised THEN "raised" ELSE "loop"
    /\ UNCHANGED <<val, sf_out, json_data>>
    /\ UNCHANGED <<parserVars, kmdVars, plotVars, mainVars>>

\* Lines 71-72.
ReturnFiltered ==
    /\ apc = "loop"
    /\ rec_i > Len(filtered)
    /\ apc' = "done"
    /\ UNCHANGED <<val, sf_out, json_data, filtered, rec_i>>
    /\ UNCHANGED <<parserVars, kmdVars, plotVars, mainVars>>

InitAug == ParserIdle /\ KmdIdle /\ PlotIdle /\ AugInit /\ MainIdle

NextAug ==
    \/ FilterMs1
    \/ AugmentFullArrays
    \/ AugmentBasePeak
    \/ ReturnFiltered

SpecAug == InitAug /\ [][NextAug]_vars

\* The MS1 records of the input, in order.
Ms1Records == SelectSeq(json_data, IsMs1Record)

\* The three derived sequences of an augmented record.
Derived(rec) == <<rec.kendrick_mz, rec.kendrick_fraction, rec.kendrick_round>>

\* C13: a record is augmented in full-array mode exactly when its m/z and
\* intensity arrays are both present and non-empty, and then gets Kendrick
\* mass, fractional and rounded defect of each m/z, index by index; otherwise
\* the values come from base_peak_mz alone, and a missing or unparsable base
\* peak gives empty sequences; augment_and_compute never raises.
C13_ModeByArrays ==
    /\ apc # "raised"
    /\ apc = "done" => rec_i = Len(Ms1Records) + 1
    /\ apc \in {"loop", "done"} =>
          \A k \in 1..(rec_i - 1) :
              LET src == Ms1Records[k]
                  out == filtered[k]
                  both == /\ src.m_z_array # NoList
                          /\ src.intensity_array # NoList
                          /\ Len(src.m_z_array[1]) > 0
                          /\ Len(src.intensity_array[1]) > 0
                  base == Float(src.base_peak_mz)
              IN  /\ \A q \in 1..3 : Derived(out)[q] # NoList
                  /\ both =>
                        /\ \A q \in 1..3 : Len(Derived(out)[q][1]) = Len(src.m_z_array[1])
                        /\ \A p \in 1..Len(src.m_z_array[1]) :
                              /\ out.kendrick_mz[1][p] = kendrick_mass(src.m_z_array[1][p])
                              /\ out.kendrick_fraction[1][p] = kmd_fractional(src.m_z_array[1][p])
                              /\ out.kendrick_round[1][p] = kmd_round(src.m_z_array[1][p])
                  /\ ~both =>
                        /\ \A q \in 1..3 : Len(Derived(out)[q][1]) <= 1
                        /\ (src.base_peak_mz = NoneVal \/ safe_float(src.base_peak_mz).value = <<>>)
                              => \A q \in 1..3 : Derived(out)[q][1] = <<>>
                        /\ (base.err = "none" /\ base.value.n # 0) =>
                              /\ out.kendrick_mz[1] = <<kendrick_mass(base.value)>>
                              /\ out.kendrick_fraction[1] = <<kmd_fractional(base.value)>>
                              /\ out.kendrick_round[1] = <<kmd_round(base.value)>>

\* Witness of C13: the call returned a record augmented over its three m/z
\* (two intensities), one from its base peak, or one left empty for an
\* unparsable base peak beside a full-array one.
C13_Witness ==
    /\ apc = "done"
    /\ Len(filtered) = 2
    /\ filtered[1].m_z_array # NoList
    /\ filtered[1].intensity_array # NoList
    /\ Len(filtered[1].m_z_array[1]) = 3
    /\ Len(filtered[1].kendrick_round[1]) = 3
    /\ filtered[2].m_z_array # NoList
    /\ filtered[2].intensity_array = NoList
    /\ filtered[2].base_peak_mz = StrVal(<<"x">>)
    /\ filtered[2].kendrick_mz = SomeList(<<>>)

-----------------------------------------------------------------------------
(* main (Graph.py lines 282-311): load, augment, optional backup and        *)
(* overwrite, optional CSV, plot.  A file is <<>> while it does not exist   *)
(* and <<records>> when it holds the JSON of the records; between open(..., *)
(* "w") and json.dump it holds nothing that parses, written <<"">>.         *)

NoFile == <<>>

JsonFile(records) == <<records>>

Truncated == <<"">>

\* augment_and_compute(data) as one call: the MS1 records, each augmented.
augment_and_compute(records) ==
    LET ms1 == SelectSeq(records, IsMs1Record)
    IN  [k \in 1..Len(ms1) |->
            IF UsesFullArrays(ms1[k]) THEN FullArrayMode(ms1[k]) ELSE BasePeakMode(ms1[k])]

\* The records a JSON file on disk may hold.
FileRecordPool ==
    {JsonRecord("1", SomeList(<<MzKmHalf, MzKm14>>), SomeList(<<1, 2>>), NoneVal),
     JsonRecord("1", NoList, NoList, StrVal(<<"1", "0", ".", "1">>)),
     JsonRecord("2", SomeList(<<MzKm14>>), SomeList(<<1>>), NoneVal)}

\* Largest number of records in the file main is given.
MaxFileRecords == 2

\* A backup left by an earlier run.
OldBackup == JsonFile(<<JsonRecord("2", NoList, NoList, NoneVal)>>)

BakPath == "json_path.bak"

\* Mutant of OsReplace: the source is removed and the target left as it was.
OsReplaceLosing(fs) == [fs EXCEPT !.json = NoFile]

\* os.replace(json_path, bak): the file is moved over whatever bak was.
OsReplace(fs) == [fs EXCEPT !.bak = fs.json, !.json = NoFile]

MainInit ==
    /\ cli \in [augment : BOOLEAN, csv : BOOLEAN, method : MethodOptions]
    /\ \E content \in {NoFile} \cup {JsonFile(d) : d \in SeqsUpTo(FileRecordPool, MaxFileRecords)},
          old \in {NoFile, OldBackup} :
          /\ files = [json |-> content, bak |-> old, csv |-> NoFile]
          /\ original = content
    /\ loaded = <<>>
    /\ bak = None
    /\ mpc = "start"

\* Lines 290-292.
ExitNotFound ==
    /\ mpc = "start"
    /\ files.json = NoFile
    /\ mpc' = "exit"
    /\ UNCHANGED <<cli, files, loaded, bak, original>>
    /\ UNCHANGED <<parserVars, kmdVars, plotVars, augVars>>

\* Lines 294-295.
LoadAndAugment ==
    /\ mpc = "start"
    /\ files.json # NoFile
    /\ loaded' = augment_and_compute(files.json[1])
    /\ mpc' = IF cli.augment THEN "backup" ELSE "csv"
    /\ UNCHANGED <<cli, files, bak, original>>
    /\ UNCHANGED <<parserVars, kmdVars, plotVars, augVars>>

\* Lines 299-302: the rename succeeds.
BackupOriginal ==
    /\ mpc = "backup"
    /\ files' = OsReplace(files)
    /\ bak' = BakPath
    /\ mpc' = "open"
    /\ UNCHANGED <<cli, loaded, original>>
    /\ UNCHANGED <<parserVars, kmdVars, plotVars, augVars>>

\* Lines 299-304: os.replace raises; nothing is moved, bak = None.
BackupFails ==
    /\ mpc = "backup"
    /\ bak' = None
    /\ mpc' = "open"
    /\ UNCHANGED <<cli, files, loaded, original>>
    /\ UNCHANGED <<parserVars, kmdVars, plotVars, augVars>>

\* Line 305: open(json_path, "w") creates or empties the file.
OpenForWriting ==
    /\ mpc = "open"
    /\ files' = [files EXCEPT !.json = Truncated]
    /\ mpc' = "dump"
    /\ UNCHANGED <<cli, loaded, bak, original>>
    /\ UNCHANGED <<parserVars, kmdVars, plotVars, augVars>>

\* Line 306 and the end of the with block.
DumpJson ==
    /\ mpc = "dump"
    /\ files' = [files EXCEPT !.json = JsonFile(loaded)]
    /\ mpc' = "csv"
    /\ UNCHANGED <<cli, loaded, bak, original>>
    /\ UNCHANGED <<parserVars, kmdVars, plotVars, augVars>>

\* Lines 308-309.
ExportCsv ==
    /\ mpc = "csv"
    /\ cli.csv
    /\ files' = [files EXCEPT !.csv = JsonFile(loaded)]
    /\ mpc' = "plot"
    /\ UNCHANGED <<cli, loaded, bak, original>>
    /\ UNCHANGED <<parserVars, kmdVars, plotVars, augVars>>

\* Line 308 false.
SkipCsv ==
    /\ mpc = "csv"
    /\ ~cli.csv
    /\ mpc' = "plot"
    /\ UNCHANGED <<cli, files, loaded, bak, original>>
    /\ UNCHANGED <<parserVars, kmdVars, plotVars, augVars>>

\* Line 311: plot_data writes no file.
PlotAndFinish ==
    /\ mpc = "plot"
    /\ mpc' = "done"
    /\ UNCHANGED <<cli, files, loaded, bak, original>>
    /\ UNCHANGED <<parserVars, kmdVars, plotVars, augVars>>

InitMain == ParserIdle /\ KmdIdle /\ PlotIdle /\ AugIdle /\ MainInit

NextMain ==
    \/ ExitNotFound
    \/ LoadAndAugment
    \/ BackupOriginal
    \/ BackupFails
    \/ OpenForWriting
    \/ DumpJson
    \/ ExportCsv
    \/ SkipCsv
    \/ PlotAndFinish

SpecMain == InitMain /\ [][NextMain]_vars

\* json_path has been opened for overwriting in augment mode.
Overwriting == cli.augment /\ mpc \in {"dump", "csv", "plot", "done"}

\* C14: in augment mode the original is moved to json_path.bak before
\* json_path is opened for overwriting; when the move fails the run goes on and
\* json_path still gets the augmented records; when it succeeds, json_path.bak
\* holds the original content from then on and json_path ends with the
\* augmented records.
C14_BackupBeforeOverwrite ==
    /\ (mpc = "open" /\ bak # None) => (files.bak = original /\ files.json = NoFile)
    /\ (mpc = "open" /\ bak = None) => files.json = original
    /\ (Overwriting /\ bak # None) => files.bak = original
    /\ (Overwriting /\ mpc # "dump") =>
          files.json = JsonFile(augment_and_compute(original[1]))
    /\ mpc = "done" => files.json # NoFile

\* Witness of C14: a finished augment run over a file with MS1 records, the
\* backup made over an older one.
C14_Witness ==
    /\ mpc = "done"
    /\ cli.augment
    /\ bak = BakPath
    /\ Len(original[1]) = 2
    /\ files.bak = original
    /\ files.json # original
    /\ Len(files.json[1]) > 0

-----------------------------------------------------------------------------
(* safe_float applied to one value (specification SpecSafeFloat)            *)

\* Longest str given to safe_float.
MaxStrLen == 3

\* None, a list, three floats, and every str over Chars up to MaxStrLen.
SafeFloatInputs ==
    {NoneVal, ListVal}
    \cup {NumVal(number) : number \in {RatInt(0), Rat(3, 2), RatInt(0 - 1)}}
    \cup {StrVal(s) : s \in SeqsUpTo(Chars, MaxStrLen)}

SafeFloatInit ==
    /\ val \in SafeFloatInputs
    /\ sf_out = [called |-> FALSE, raised |-> FALSE, value |-> <<>>]
    /\ json_data = <<>>
    /\ filtered = <<>>
    /\ rec_i = 1
    /\ apc = "idle"

CallSafeFloat ==
    /\ ~sf_out.called
    /\ sf_out' = safe_float(val)
    /\ UNCHANGED <<val, json_data, filtered, rec_i, apc>>
    /\ UNCHANGED <<parserVars, kmdVars, plotVars, mainVars>>

InitSafeFloat == ParserIdle /\ KmdIdle /\ PlotIdle /\ SafeFloatInit /\ MainIdle

NextSafeFloat == CallSafeFloat

SpecSafeFloat == InitSafeFloat /\ [][NextSafeFloat]_vars

\* C15: safe_float never raises; None gives None; a value float() accepts
\* gives that number; otherwise a value whose text float() accepts once its
\* commas are removed gives that number; every other value gives None.
C15_SafeFloatLayers ==
    sf_out.called =>
        /\ ~sf_out.raised
        /\ val = NoneVal => sf_out.value = <<>>
        /\ val # NoneVal =>
              IF Float(val).err = "none"
              THEN sf_out.value = <<Float(val).value>>
              ELSE LET text == IF val.type = "str" THEN val.s ELSE <<"[", "]">>
                       bare == ParseFloat(SelectSeq(text, NotComma))
                   IN  IF bare.err = "none" THEN sf_out.value = <<bare.value>>
                       ELSE sf_out.value = <<>>
        /\ val = StrVal(<<"1", ".", "1">>) => sf_out.value = <<Rat(11, 10)>>
        /\ val = StrVal(<<"1", ",", "0">>) => sf_out.value = <<RatInt(10)>>
        /\ val = StrVal(<<"-", ".", "1">>) => sf_out.value = <<Rat(0 - 1, 10)>>
        /\ val \in {StrVal(<<"x">>), StrVal(<<>>), StrVal(<<",">>), StrVal(<<"1", " ", "1">>),
                    StrVal(<<"1", "-">>), StrVal(<<".">>), ListVal} => sf_out.value = <<>>
        /\ val.type = "float" => sf_out.value = <<val.v>>

\* Witness of C15: a str that float() rejects and that parses once its comma
\* is removed has been mapped to its number.
C15_Witness ==
    /\ sf_out.called
    /\ val = StrVal(<<"1", ",", "0">>)
    /\ Float(val).err = "ValueError"
    /\ sf_out.value = <<RatInt(10)>>

\* The values at xq of the polyline through the breakpoints (xp[k], fp[k]),
\* stated from the geometry: the edge value outside the breakpoints, and on a
\* segment around xq the point of the straight line between its two ends (at
\* a vertical step, either end).
PolylineAt(xq, xp, fp) ==
    IF RatLt(xq, xp[1]) THEN {fp[1]}
    ELSE IF RatLt(xp[Len(xp)], xq) THEN {fp[Len(fp)]}
    ELSE UNION {IF xp[k] = xp[k + 1] THEN {fp[k], fp[k + 1]}
                ELSE {RatDiv(RatAdd(RatMul(fp[k], RatSub(xp[k + 1], xq)),
                                    RatMul(fp[k + 1], RatSub(xq, xp[k]))),
                             RatSub(xp[k + 1], xp[k]))} :
                   k \in {q \in 1..(Len(xp) - 1) :
                             RatLeq(xp[q], xq) /\ RatLeq(xq, xp[q + 1])}}

\* Whether the replica of pooled point p shifted by k belongs inside the band
\* whose bounds at the point's m/z are low and high, as the classification
\* rule words it.
BelongsInside(p, k, low, high) ==
    /\ RatLeq(lower_x[1], x[p])
    /\ RatLeq(x[p], upper_x[1])
    /\ RatLeq(low, RatAdd(y[p], RatInt(k)))
    /\ RatLeq(RatAdd(y[p], RatInt(k)), high)

\* There are 13 replicas of every pooled point, one per k in -6..6, each with
\* the point's intensity, and each is classified inside exactly when it
\* belongs inside, the band's bounds at the point's m/z being values of the
\* two polylines there (where equal m/z make a polyline step, one of the
\* step's values).
ReplicasClassifiedByBand ==
    /\ Len(inside_mask) = 13 * Len(x)
    /\ \A p \in 1..Len(x) :
          \E low \in PolylineAt(x[p], x_band, y_low),
             high \in PolylineAt(x[p], x_band, y_high) :
             \A k \in (0 - 6)..6 :
                /\ inside_mask[(k + 6) * Len(x) + p] = BelongsInside(p, k, low, high)
                /\ TileC((k + 6) * Len(x) + p) = c[p]

\* C16: every pooled point has 13 replicas (mz, kmd + k, intensity), k in
\* -6..6; a replica is classified inside exactly when lower_x <= mz <= upper_x
\* and y_low(mz) <= kmd + k <= y_high(mz) on the piecewise-linear band, clamped
\* to its edge values; and a returned noise is the noise level of exactly the
\* replicas classified inside.
C16_ReplicasClassifiedAndAveraged ==
    /\ TilesClassified => ReplicasClassifiedByBand
    /\ (TilesClassified /\ ppc = "returned") => noise \in NoiseLevel(FullInBandSet)

\* The exponent of max(1.0, largest pooled intensity).
LargestPooledOrOne == MaxOf({0} \cup Range(c))

\* The float noise_value is at least e^k.
NoiseAtLeast(noise_value, k) ==
    \/ RatLt(RatInt(k), noise_value.exponent)
    \/ noise_value.exponent = RatInt(k) /\ noise_value.rounding # "below"

\* The float noise_value is at most e^k.
NoiseAtMost(noise_value, k) ==
    \/ RatLt(noise_value.exponent, RatInt(k))
    \/ noise_value.exponent = RatInt(k) /\ noise_value.rounding # "above"

-----------------------------------------------------------------------------
(* plot_data on pooled inputs of 199 points and more, where window_size    *)
(* (line 127) exceeds 1: windows of several points, a shorter last window, *)
(* and points that lie between two window centers, so that np.interp       *)
(* interpolates.  The records list their peaks by descending m/z, so the   *)
(* sort reverses them.                                                     *)

LargePoint(k, n) ==
    Point(RatInt(100 + n - k), Rat((k % 7) - 3, 8), Rat((k * 3) % 8, 8), (k % 3) - 1)

LargeRecord(n) == FullRecord([k \in 1..n |-> LargePoint(k, n)])

\* The largest pooled input with windows of two points; a hundred points more
\* give windows of three.
MaxLargePoints == 201

LargeSizes == {MaxLargePoints - 2, MaxLargePoints - 1, MaxLargePoints,
               MaxLargePoints + WindowDivisor}

PlotLargeInit ==
    /\ \E n \in LargeSizes, method \in MethodOptions,
          max_points \in {<<>>, <<1>>}, band_margin \in {RatInt(0), Rat(1, 20)} :
          args = [data |-> <<LargeRecord(n)>>, method |-> method,
                  max_points |-> max_points, band_margin |-> band_margin]
    /\ \E b \in {<<NoList, NoList>>,
                 <<SomeList(RatInt(10)), SomeList(RatInt(1000))>>} :
          lower_x = b[1] /\ upper_x = b[2]
    /\ ppc = "start"
    /\ x = <<>>
    /\ y = <<>>
    /\ c = <<>>
    /\ x_band = <<>>
    /\ y_low = <<>>
    /\ y_high = <<>>
    /\ inside_mask = <<>>
    /\ c_plot = <<>>
    /\ noise = <<>>

InitPlotLarge == ParserIdle /\ KmdIdle /\ PlotLargeInit /\ AugIdle /\ MainIdle

SpecPlotLarge == InitPlotLarge /\ [][NextPlot]_vars

\* The sorted points at places first..last of the order sorted_idx.
SortedChunk(values, sorted_idx, first, last) ==
    [k \in 1..(last - first + 1) |-> values[sorted_idx[first + k - 1]]]

\* C17: the N pooled points, sorted by m/z ascending, are cut into contiguous
\* windows of w = max(1, floor(N/100)) points: the windows cover every sorted
\* point once, all but the last hold w points and the last holds 1..w, and
\* window q gives the one band point x_band[q + 1] = mean m/z of the window,
\* y_low[q + 1] = the window's min KMD + slope * x - band_margin and
\* y_high[q + 1] = its max KMD + slope * x + band_margin.
C17_WindowPartition ==
    ppc = "banded" =>
        \E sorted_idx \in ArgSorts(x) :
            LET N == Len(x)
                w == IF N \div 100 >= 1 THEN N \div 100 ELSE 1
                count == Len(x_band) - 2
                first(q) == (q - 1) * w + 1
                last(q) == IF q * w <= N THEN q * w ELSE N
                center(q) == Mean(SortedChunk(x, sorted_idx, first(q), last(q)))
                kmds(q) == SortedChunk(y, sorted_idx, first(q), last(q))
            IN  /\ Len(y_low) = count + 2
                /\ Len(y_high) = count + 2
                /\ (count - 1) * w < N
                /\ N <= count * w
                /\ \A q \in 1..count :
                      /\ x_band[q + 1] = center(q)
                      /\ y_low[q + 1] =
                            RatSub(RatAdd(RatMin(kmds(q)), RatMul(slope, center(q))),
                                   args.band_margin)
                      /\ y_high[q + 1] =
                            RatAdd(RatAdd(RatMax(kmds(q)), RatMul(slope, center(q))),
                                   args.band_margin)

\* A band built from windows of two or more points whose last window is
\* shorter than the others.
C17_Witness ==
    /\ ppc = "banded"
    /\ Len(x) \div 100 >= 2
    /\ Len(x) % (Len(x) \div 100) # 0
    /\ (Len(x_band) - 3) * (Len(x) \div 100) < Len(x)
    /\ Len(x) < (Len(x_band) - 2) * (Len(x) \div 100)

=============================================================================
